---------------------------- MODULE Spec2Model ----------------------------
(***************************************************************************)
(* String analyzer service: property computation, filter evaluation, the   *)
(* in-memory store with its paginated List, the HTTP handlers, the         *)
(* natural-language parser, and the SQLite store behind /strings.          *)
(*                                                                         *)
(* A Go string is modelled as the sequence of its Unicode code points      *)
(* (well-formed UTF-8); its bytes are obtained with Utf8, so that len(s)   *)
(* and s[i], which the Go code applies to bytes, are computed on bytes.    *)
(***************************************************************************)
EXTENDS Integers, Sequences, FiniteSets, TLC

VARIABLES
    store,   \* InMemoryStore.store: map from raw value to *StringResource
    now,     \* the wall clock read by time.Now()
    resp,    \* the response of the last HTTP request served
    arg,     \* arguments of the last direct call of a pure function
    ret,     \* its result
    reqs,    \* the request each goroutine of the server is handling
    mu       \* the store's mutex: who holds it for writing, who for reading

vars == <<store, now, resp, arg, ret, reqs, mu>>

-----------------------------------------------------------------------------
(* Bounds of the model *)

MaxLen == 3          \* longest enumerated input string, in code points
MaxFilterKeys == 2   \* most filters present in one enumerated filter set
MaxStore == 3        \* most resources held by the store
MaxClock == 1        \* last clock value

-----------------------------------------------------------------------------
(* Code points and strings *)

Alphabet == {97, 65, 32, 233, 49}    \* 'a' 'A' ' ' U+00E9 '1'

EmptyString == << >>
racecar == <<114, 97, 99, 101, 99, 97, 114>>
helloWorld == <<104, 101, 108, 108, 111, 32, 119, 111, 114, 108, 100>>
test == <<116, 101, 115, 116>>
madam == <<109, 97, 100, 97, 109>>
panama == <<65, 32, 109, 97, 110, 44, 32, 97, 32, 112, 108, 97, 110, 44, 32,
            97, 32, 99, 97, 110, 97, 108, 58, 32, 80, 97, 110, 97, 109, 97>>
fiftyPercent == <<53, 48, 37>>    \* "50%"

SeedValues == {racecar, helloWorld, test, madam, panama}

StringsUpTo(n) == UNION {[1..k -> Alphabet] : k \in 0..n}

Inputs == StringsUpTo(MaxLen) \cup SeedValues

Min(a, b) == IF a < b THEN a ELSE b

\* utf8.EncodeRune for code points below U+10000
Utf8Rune(r) ==
    IF r < 128 THEN <<r>>
    ELSE IF r < 2048 THEN <<192 + (r \div 64), 128 + (r % 64)>>
    ELSE <<224 + (r \div 4096), 128 + ((r \div 64) % 64), 128 + (r % 64)>>

RECURSIVE Utf8(_)
Utf8(s) == IF s = << >> THEN << >> ELSE Utf8Rune(Head(s)) \o Utf8(Tail(s))

\* unicode.ToLower on U+0000..U+00FF
ToLowerRune(r) ==
    IF r >= 65 /\ r <= 90 THEN r + 32
    ELSE IF r >= 192 /\ r <= 222 /\ r # 215 THEN r + 32
    ELSE r

ToLower(s) == [i \in 1..Len(s) |-> ToLowerRune(s[i])]

\* unicode.IsLetter on U+0000..U+00FF
IsLetter(r) ==
    \/ r >= 65 /\ r <= 90
    \/ r >= 97 /\ r <= 122
    \/ r \in {170, 181, 186}
    \/ r >= 192 /\ r <= 255 /\ r \notin {215, 247}

\* unicode.IsDigit on U+0000..U+00FF
IsDigit(r) == r >= 48 /\ r <= 57

\* unicode.IsSpace on U+0000..U+00FF
IsSpace(r) == r \in {9, 10, 11, 12, 13, 32, 133, 160}

\* strings.Fields: the maximal runs of non-space code points
RECURSIVE Fields(_)
Fields(s) ==
    IF s = << >> THEN << >>
    ELSE IF IsSpace(Head(s)) THEN Fields(Tail(s))
    ELSE LET stops == {i \in 1..Len(s) : IsSpace(s[i])}
             n == IF stops = {} THEN Len(s)
                  ELSE (CHOOSE i \in stops : \A j \in stops : i <= j) - 1
         IN <<SubSeq(s, 1, n)>> \o Fields(SubSeq(s, n + 1, Len(s)))

-----------------------------------------------------------------------------
(* handlers.go: property computation *)

\* sha256.Sum256 + hex.EncodeToString: an ideal digest, a tagged copy of the
\* hashed bytes (distinct byte strings have distinct digests)
Sha256Hex(bytes) == <<"sha256", bytes>>

isPalindrome(s) ==
    LET cleaned == SelectSeq(ToLower(s), LAMBDA r : IsLetter(r) \/ IsDigit(r))
        str == Utf8(cleaned)
    IN \A i \in 0..((Len(str) \div 2) - 1) : str[i + 1] = str[Len(str) - i]

countWords(s) == Len(Fields(s))

freqMapOf(value) ==
    [k \in {<<value[i]>> : i \in 1..Len(value)} |->
        Cardinality({i \in 1..Len(value) : <<value[i]>> = k})]

ComputeProperties(value) ==
    LET freqMap == freqMapOf(value)
    IN [Length |-> Len(Utf8(value)),
        IsPalindrome |-> isPalindrome(value),
        UniqueCharacters |-> Cardinality(DOMAIN freqMap),
        WordCount |-> countWords(value),
        SHA256Hash |-> Sha256Hex(Utf8(value)),
        CharacterFrequencyMap |-> freqMap]

\* NewResource, had the id been the digest of the request body before the
\* value was decoded (no bytes) instead of the digest kept in the properties
NewResourceIdOfNoBytes(value, t) ==
    LET props == ComputeProperties(value)
    IN [ID |-> Sha256Hex(<< >>), Value |-> value, Properties |-> props,
        CreatedAt |-> t]

\* the StringResource literal built by CreateString and by seedStore
NewResource(value, t) ==
    LET props == ComputeProperties(value)
    IN [ID |-> props.SHA256Hash, Value |-> value, Properties |-> props,
        CreatedAt |-> t]

-----------------------------------------------------------------------------
(* main.go: filter evaluation *)

\* filterCase, had contains_character ignored case
filterCaseFolded(res, key, val) ==
    CASE key = "is_palindrome" -> res.Properties.IsPalindrome = val
      [] key = "min_length" -> ~(res.Properties.Length < val)
      [] key = "max_length" -> ~(res.Properties.Length > val)
      [] key = "word_count" -> res.Properties.WordCount = val
      [] key = "contains_character" ->
            ToLower(val) \in {ToLower(k) : k \in DOMAIN res.Properties.CharacterFrequencyMap}
      [] OTHER -> TRUE

\* filterCase, had the length bounds been exclusive
filterCaseExclusive(res, key, val) ==
    CASE key = "is_palindrome" -> res.Properties.IsPalindrome = val
      [] key = "min_length" -> ~(res.Properties.Length <= val)
      [] key = "max_length" -> ~(res.Properties.Length >= val)
      [] key = "word_count" -> res.Properties.WordCount = val
      [] key = "contains_character" ->
            val \in DOMAIN res.Properties.CharacterFrequencyMap
      [] OTHER -> TRUE

\* one case of the switch in matchesFilters: FALSE where the code returns false
filterCase(res, key, val) ==
    CASE key = "is_palindrome" -> res.Properties.IsPalindrome = val
      [] key = "min_length" -> ~(res.Properties.Length < val)
      [] key = "max_length" -> ~(res.Properties.Length > val)
      [] key = "word_count" -> res.Properties.WordCount = val
      [] key = "contains_character" ->
            val \in DOMAIN res.Properties.CharacterFrequencyMap
      [] OTHER -> TRUE

\* matchesFilters, had one satisfied filter been enough
matchesAnyFilter(res, filters) ==
    \/ filters = << >>
    \/ \E key \in DOMAIN filters : filterCase(res, key, filters[key])

matchesFilters(res, filters) ==
    \A key \in DOMAIN filters : filterCase(res, key, filters[key])

-----------------------------------------------------------------------------
(* Filter sets: map[string]any, a function from the keys present to values *)

NoFilters == << >>

FilterKeys == {"is_palindrome", "min_length", "max_length", "word_count",
               "contains_character", "sort_by"}

FilterValues(key) ==
    CASE key = "is_palindrome" -> BOOLEAN
      [] key = "min_length" -> {0, 2, 3, 5}
      [] key = "max_length" -> {0, 2, 3, 5}
      [] key = "word_count" -> {0, 1, 2}
      [] key = "contains_character" -> {<<97>>, <<65>>, <<111>>, <<79>>, <<233>>}
      [] OTHER -> {0}

RECURSIVE FilterSetsOver(_)
FilterSetsOver(S) ==
    IF S = {} THEN {NoFilters}
    ELSE LET k == CHOOSE x \in S : TRUE
         IN {(k :> v) @@ f : f \in FilterSetsOver(S \ {k}), v \in FilterValues(k)}

FilterSets ==
    UNION {FilterSetsOver(S) :
             S \in {T \in SUBSET FilterKeys : Cardinality(T) <= MaxFilterKeys}}

-----------------------------------------------------------------------------
(* Initial state *)

NoResp == [op |-> "none"]
NoArg == [fn |-> "none"]
NoRet == [fn |-> "none"]

\* requests served one at a time: no goroutine besides the one serving, and
\* a mutex nobody contends for
NoRequests == << >>
NoMutex == [type |-> "none"]

Init ==
    /\ store = << >>
    /\ now = 0
    /\ reqs = NoRequests
    /\ mu = NoMutex
    /\ resp = NoResp
    /\ arg = NoArg
    /\ ret = NoRet

-----------------------------------------------------------------------------------------------------------------------------------------------------
(* Direct calls of the pure functions: the initial state draws the         *)
(* arguments, the single step applies the function.                        *)

InitFn ==
    /\ store = << >>
    /\ now = 0
    /\ reqs = NoRequests
    /\ mu = NoMutex
    /\ resp = NoResp
    /\ ret = NoRet
    /\ \/ \E value \in Inputs :
             arg = [fn |-> "ComputeProperties", value |-> value,
                    filters |-> NoFilters]
       \/ \E value \in Inputs, filters \in FilterSets :
             arg = [fn |-> "matchesFilters", value |-> value,
                    filters |-> filters]

CallComputeProperties ==
    /\ arg.fn = "ComputeProperties"
    /\ ret = NoRet
    /\ ret' = [fn |-> "ComputeProperties", props |-> ComputeProperties(arg.value)]
    /\ UNCHANGED <<store, now, resp, arg, reqs, mu>>

CallMatchesFilters ==
    /\ arg.fn = "matchesFilters"
    /\ ret = NoRet
    /\ ret' = [fn |-> "matchesFilters",
               matched |-> matchesFilters(NewResource(arg.value, 0), arg.filters)]
    /\ UNCHANGED <<store, now, resp, arg, reqs, mu>>

NextFn == CallComputeProperties \/ CallMatchesFilters

SpecFn == InitFn /\ [][NextFn]_vars

-----------------------------------------------------------------------------
(* main.go: InMemoryStore.  The map is a function from the raw values      *)
(* stored to their resources; every method runs under the store's lock.    *)

Perms(S) ==
    {f \in [1..Cardinality(S) -> S] : \A i, j \in DOMAIN f : f[i] = f[j] => i = j}

Create(s, sr) == [store |-> (sr.Value :> sr) @@ s, err |-> "nil"]

Get(s, value) ==
    IF value \notin DOMAIN s THEN [res |-> "nil", err |-> "string not found"]
    ELSE [res |-> s[value], err |-> "nil"]

Delete(s, value) ==
    IF value \notin DOMAIN s THEN [store |-> s, err |-> "string not found"]
    ELSE [store |-> [v \in DOMAIN s \ {value} |-> s[v]], err |-> "nil"]

\* Exists, had it looked the value up among the resource ids
ExistsByID(s, value) == \E v \in DOMAIN s : s[v].ID = value

Exists(s, value) == value \in DOMAIN s

\* the slice expression a[lo:hi] of a slice whose capacity is its length
SliceExpr(a, lo, hi) ==
    IF lo < 0 \/ hi < lo \/ hi > Len(a) THEN [panic |-> TRUE, slice |-> << >>]
    ELSE [panic |-> FALSE, slice |-> SubSeq(a, lo + 1, hi)]

\* the loop of List: order is the order in which this call's range
\* statement visits the map, which Go leaves unspecified
collect(s, order, filters) ==
    LET visited == [i \in 1..Len(order) |-> s[order[i]]]
    IN SelectSeq(visited, LAMBDA res : matchesFilters(res, filters))

\* paginate, had the count been taken after the slicing
paginateCountsPage(allResults, limit, offset) ==
    LET totalCount == Len(allResults)
        start == offset
        end == offset + limit
    IN IF start > totalCount
       THEN [data |-> << >>, count |-> 0, err |-> "nil", allResults |-> allResults]
       ELSE LET end2 == IF end > totalCount THEN totalCount ELSE end
                paginatedResults == SliceExpr(allResults, start, end2)
            IN [data |-> paginatedResults.slice,
                count |-> Len(paginatedResults.slice),
                err |-> IF paginatedResults.panic THEN "panic" ELSE "nil",
                allResults |-> allResults]

\* paginate, had the end of the page not been clamped to the count
paginateUnclamped(allResults, limit, offset) ==
    LET totalCount == Len(allResults)
        start == offset
        end == offset + limit
    IN IF start > totalCount
       THEN [data |-> << >>, count |-> totalCount, err |-> "nil",
             allResults |-> allResults]
       ELSE LET paginatedResults == SliceExpr(allResults, start, end)
            IN [data |-> paginatedResults.slice, count |-> totalCount,
                err |-> IF paginatedResults.panic THEN "panic" ELSE "nil",
                allResults |-> allResults]

\* paginate, had the offset past the end not been answered before slicing
paginateNoPastEnd(allResults, limit, offset) ==
    LET totalCount == Len(allResults)
        start == offset
        end == offset + limit
        end2 == IF end > totalCount THEN totalCount ELSE end
        paginatedResults == SliceExpr(allResults, start, end2)
    IN [data |-> paginatedResults.slice, count |-> totalCount,
        err |-> IF paginatedResults.panic THEN "panic" ELSE "nil",
        allResults |-> allResults]

\* the count and the pagination of List
paginate(allResults, limit, offset) ==
    LET totalCount == Len(allResults)
        start == offset
        end == offset + limit
    IN IF start > totalCount
       THEN [data |-> << >>, count |-> totalCount, err |-> "nil",
             allResults |-> allResults]
       ELSE LET end2 == IF end > totalCount THEN totalCount ELSE end
                paginatedResults == SliceExpr(allResults, start, end2)
            IN [data |-> paginatedResults.slice, count |-> totalCount,
                err |-> IF paginatedResults.panic THEN "panic" ELSE "nil",
                allResults |-> allResults]

List(s, order, filters, limit, offset) ==
    paginate(collect(s, order, filters), limit, offset)

-----------------------------------------------------------------------------
(* strconv *)

RECURSIVE DigitsValue(_)
DigitsValue(ds) ==
    IF ds = << >> THEN 0
    ELSE 10 * DigitsValue(SubSeq(ds, 1, Len(ds) - 1)) + (ds[Len(ds)] - 48)

\* strconv.Atoi, for numerals that fit an int
Atoi(str) ==
    LET signed == str # << >> /\ str[1] \in {43, 45}
        digits == IF signed THEN Tail(str) ELSE str
    IN IF digits = << >> \/ \E i \in 1..Len(digits) : ~IsDigit(digits[i])
       THEN [n |-> 0, err |-> "invalid syntax"]
       ELSE [n |-> IF signed /\ str[1] = 45 THEN 0 - DigitsValue(digits)
                   ELSE DigitsValue(digits),
             err |-> "nil"]

\* strconv.ParseBool
ParseBool(str) ==
    IF str \in {<<49>>, <<116>>, <<84>>, <<84, 82, 85, 69>>,
                <<116, 114, 117, 101>>, <<84, 114, 117, 101>>}
    THEN [b |-> TRUE, err |-> "nil"]
    ELSE IF str \in {<<48>>, <<102>>, <<70>>, <<70, 65, 76, 83, 69>>,
                     <<102, 97, 108, 115, 101>>, <<70, 97, 108, 115, 101>>}
    THEN [b |-> FALSE, err |-> "nil"]
    ELSE [b |-> FALSE, err |-> "invalid syntax"]

-----------------------------------------------------------------------------
(* net/url *)

IsHex(c) == IsDigit(c) \/ (c >= 97 /\ c <= 102) \/ (c >= 65 /\ c <= 70)

HexVal(c) == IF IsDigit(c) THEN c - 48 ELSE IF c >= 97 THEN c - 87 ELSE c - 55

\* url.PathUnescape, for escapes of bytes below 0x80
RECURSIVE PathUnescape(_)
PathUnescape(str) ==
    IF str = << >> THEN [str |-> << >>, err |-> "nil"]
    ELSE IF Head(str) = 37
    THEN IF Len(str) < 3 \/ ~IsHex(str[2]) \/ ~IsHex(str[3])
         THEN [str |-> << >>, err |-> "invalid URL escape"]
         ELSE LET rest == PathUnescape(SubSeq(str, 4, Len(str)))
              IN IF rest.err # "nil" THEN rest
                 ELSE [str |-> <<16 * HexVal(str[2]) + HexVal(str[3])>> \o rest.str,
                       err |-> "nil"]
    ELSE LET rest == PathUnescape(Tail(str))
         IN IF rest.err # "nil" THEN rest
            ELSE [str |-> <<Head(str)>> \o rest.str, err |-> "nil"]

-----------------------------------------------------------------------------
(* Requests *)

Methods == {"GET", "POST", "DELETE"}

Values == {helloWorld, test, madam, fiftyPercent}

\* request bodies of POST /strings: malformed JSON, or an object whose value
\* field is the given string (a missing field decodes to the empty string)
Bodies ==
    {[json |-> FALSE, value |-> EmptyString]}
        \cup {[json |-> TRUE, value |-> v] : v \in Values \cup {EmptyString}}

\* r.URL.Path after the prefix "/strings/"
Paths == Values \cup {EmptyString, <<37>>}

DefaultLimit == 25
LimitCeiling == 100

\* raw query parameters of GET /strings/list; the empty string is what
\* Query().Get returns for a parameter that is absent
NoQuery ==
    [is_palindrome |-> EmptyString, min_length |-> EmptyString,
     max_length |-> EmptyString, word_count |-> EmptyString,
     contains_character |-> EmptyString, limit |-> EmptyString,
     offset |-> EmptyString]

\* the filter parameters of the requests: well-formed ones, alone and
\* combined, and one malformed value of each kind
FilterQueries ==
    {<< >>,
     "is_palindrome" :> <<116, 114, 117, 101>>,                \* true
     "is_palindrome" :> <<48>>,                                \* 0
     "is_palindrome" :> <<121, 101, 115>>,                     \* yes
     "min_length" :> <<53>>,                                   \* 5
     "min_length" :> <<45, 49>>,                               \* -1
     "max_length" :> <<52>>,                                   \* 4
     "max_length" :> <<53>>,                                   \* 5
     "max_length" :> <<120>>,                                  \* x
     "word_count" :> <<49>>,                                   \* 1
     "word_count" :> <<45, 49>>,                               \* -1
     "contains_character" :> <<97>>,                           \* a
     "contains_character" :> <<97, 98>>,                       \* ab
     ("min_length" :> <<53>>) @@ ("max_length" :> <<52>>),     \* 5 and 4
     ("min_length" :> <<53>>) @@ ("max_length" :> <<53>>),     \* 5 and 5
     ("is_palindrome" :> <<116, 114, 117, 101>>) @@ ("word_count" :> <<49>>),
     ("word_count" :> <<49>>) @@ ("contains_character" :> <<97>>)}

Limits == {EmptyString, <<49>>, <<50>>, <<48>>, <<49, 48, 49>>}   \* 1 2 0 101

Offsets == {EmptyString, <<49>>, <<50>>, <<51>>, <<45, 49>>}      \* 1 2 3 -1

Queries ==
    {[(f @@ NoQuery) EXCEPT !.limit = l, !.offset = o] :
        f \in FilterQueries, l \in Limits, o \in Offsets}

-----------------------------------------------------------------------------------------------------------------------------------------------------
(* handlers.go: the HTTP handlers, each served as one step.  resp keeps    *)
(* the request served (req), the status and body written, and for the list *)
(* endpoints the call of the store's List and what it returned.            *)

NoList == [called |-> FALSE]

\* writeError
ErrorResponse(op, req, status, errorType, message) ==
    [op |-> op, req |-> req, status |-> status,
     body |-> [Status |-> status, Error |-> errorType, Message |-> message],
     list |-> NoList]

\* writeJSON
JSONResponse(op, req, status, data) ==
    [op |-> op, req |-> req, status |-> status, body |-> data, list |-> NoList]

\* the connection is free for the next request
Idle == resp = NoResp

\* time.Now(): the clock read, which has advanced since the last read or not
Clock == {t \in {now, now + 1} : t <= MaxClock}

\* POST /strings
CreateString ==
    /\ Idle
    /\ UNCHANGED <<arg, ret, reqs, mu>>
    /\ \/ /\ \E method \in Methods \ {"POST"} :
                resp' = ErrorResponse("create", [method |-> method], 405,
                                      "Method Not Allowed", "Only POST is allowed")
          /\ UNCHANGED <<store, now>>
       \/ \E body \in Bodies :
             LET req == [method |-> "POST", json |-> body.json, value |-> body.value]
             IN IF ~req.json
                THEN /\ resp' = ErrorResponse("create", req, 400, "Bad Request",
                                              "Invalid JSON")
                     /\ UNCHANGED <<store, now>>
                ELSE IF req.value = EmptyString
                THEN /\ resp' = ErrorResponse("create", req, 400, "Bad Request",
                                              "Missing required field: value")
                     /\ UNCHANGED <<store, now>>
                ELSE IF Exists(store, req.value)
                THEN /\ resp' = ErrorResponse("create", req, 409, "Conflict",
                                              "String already exists")
                     /\ UNCHANGED <<store, now>>
                ELSE \E t \in Clock :
                        LET resource == NewResource(req.value, t)
                            created == Create(store, resource)
                        IN /\ Cardinality(DOMAIN store) < MaxStore
                           /\ now' = t
                           /\ store' = created.store
                           /\ resp' = IF created.err # "nil"
                                      THEN ErrorResponse("create", req, 500,
                                              "Internal Server Error", created.err)
                                      ELSE JSONResponse("create", req, 201, resource)

\* GET /strings/{string_value}
GetString ==
    /\ Idle
    /\ UNCHANGED <<store, now, arg, ret, reqs, mu>>
    /\ \E path \in Paths :
          LET req == [method |-> "GET", path |-> path]
              unescaped == PathUnescape(path)
              got == Get(store, unescaped.str)
          IN resp' =
                IF path = EmptyString
                THEN ErrorResponse("get", req, 400, "Bad Request",
                                   "Missing string value in path")
                ELSE IF unescaped.err # "nil"
                THEN ErrorResponse("get", req, 400, "Bad Request",
                                   "Invalid URL encoding")
                ELSE IF got.err # "nil"
                THEN ErrorResponse("get", req, 404, "Not Found", "String not found")
                ELSE JSONResponse("get", req, 200, got.res)

\* DELETE /strings/{string_value}
DeleteString ==
    /\ Idle
    /\ UNCHANGED <<now, arg, ret, reqs, mu>>
    /\ \E path \in Paths :
          LET req == [method |-> "DELETE", path |-> path]
              unescaped == PathUnescape(path)
              deleted == Delete(store, unescaped.str)
          IN IF path = EmptyString
             THEN /\ resp' = ErrorResponse("delete", req, 400, "Bad Request",
                                           "Missing string value in path")
                  /\ UNCHANGED store
             ELSE IF unescaped.err # "nil"
             THEN /\ resp' = ErrorResponse("delete", req, 400, "Bad Request",
                                           "Invalid URL encoding")
                  /\ UNCHANGED store
             ELSE /\ store' = deleted.store
                  /\ resp' = IF deleted.err # "nil"
                             THEN ErrorResponse("delete", req, 404, "Not Found",
                                                "String not found")
                             ELSE JSONResponse("delete", req, 204, "no content")

\* listParams, had the limit had no ceiling
listParamsNoCeiling(query) ==
    LET isPalin == ParseBool(query.is_palindrome)
        minLen == Atoi(query.min_length)
        maxLen == Atoi(query.max_length)
        wordCount == Atoi(query.word_count)
        l == Atoi(query.limit)
        o == Atoi(query.offset)
        Given(param) == query[param] # EmptyString
        Bad(message) == [err |-> message, filters |-> NoFilters, limit |-> 0,
                         offset |-> 0]
        Entry(param, val) == IF Given(param) THEN param :> val ELSE NoFilters
    IN IF Given("is_palindrome") /\ isPalin.err # "nil"
       THEN Bad("Invalid is_palindrome value")
       ELSE IF Given("min_length") /\ (minLen.err # "nil" \/ minLen.n < 0)
       THEN Bad("Invalid min_length value")
       ELSE IF Given("max_length") /\ (maxLen.err # "nil" \/ maxLen.n < 0)
       THEN Bad("Invalid max_length value")
       ELSE IF Given("word_count") /\ (wordCount.err # "nil" \/ wordCount.n < 0)
       THEN Bad("Invalid word_count value")
       ELSE IF Given("contains_character") /\ Len(query.contains_character) # 1
       THEN Bad("contains_character must be exactly one character")
       ELSE IF Given("limit") /\ (l.err # "nil" \/ l.n < 1)
       THEN Bad("Invalid limit value (1-100)")
       ELSE IF Given("offset") /\ (o.err # "nil" \/ o.n < 0)
       THEN Bad("Invalid offset value")
       ELSE [err |-> "nil",
             filters |-> Entry("is_palindrome", isPalin.b)
                            @@ Entry("min_length", minLen.n)
                            @@ Entry("max_length", maxLen.n)
                            @@ Entry("word_count", wordCount.n)
                            @@ Entry("contains_character", query.contains_character),
             limit |-> IF Given("limit") THEN l.n ELSE DefaultLimit,
             offset |-> IF Given("offset") THEN o.n ELSE 0]

\* the query parameters of ListStrings, parsed in the handler's order: the
\* message of the first malformed one, or the arguments for the store's List
listParams(query) ==
    LET isPalin == ParseBool(query.is_palindrome)
        minLen == Atoi(query.min_length)
        maxLen == Atoi(query.max_length)
        wordCount == Atoi(query.word_count)
        l == Atoi(query.limit)
        o == Atoi(query.offset)
        Given(param) == query[param] # EmptyString
        Bad(message) == [err |-> message, filters |-> NoFilters, limit |-> 0,
                         offset |-> 0]
        Entry(param, val) == IF Given(param) THEN param :> val ELSE NoFilters
    IN IF Given("is_palindrome") /\ isPalin.err # "nil"
       THEN Bad("Invalid is_palindrome value")
       ELSE IF Given("min_length") /\ (minLen.err # "nil" \/ minLen.n < 0)
       THEN Bad("Invalid min_length value")
       ELSE IF Given("max_length") /\ (maxLen.err # "nil" \/ maxLen.n < 0)
       THEN Bad("Invalid max_length value")
       ELSE IF Given("word_count") /\ (wordCount.err # "nil" \/ wordCount.n < 0)
       THEN Bad("Invalid word_count value")
       ELSE IF Given("contains_character") /\ Len(query.contains_character) # 1
       THEN Bad("contains_character must be exactly one character")
       ELSE IF Given("limit") /\ (l.err # "nil" \/ l.n < 1 \/ l.n > LimitCeiling)
       THEN Bad("Invalid limit value (1-100)")
       ELSE IF Given("offset") /\ (o.err # "nil" \/ o.n < 0)
       THEN Bad("Invalid offset value")
       ELSE [err |-> "nil",
             filters |-> Entry("is_palindrome", isPalin.b)
                            @@ Entry("min_length", minLen.n)
                            @@ Entry("max_length", maxLen.n)
                            @@ Entry("word_count", wordCount.n)
                            @@ Entry("contains_character", query.contains_character),
             limit |-> IF Given("limit") THEN l.n ELSE DefaultLimit,
             offset |-> IF Given("offset") THEN o.n ELSE 0]

\* the store's List is called with the parsed parameters and its result is
\* written; order is the iteration order of the map in this call
listResponse(req, params, order) ==
    LET listed == List(store, order, params.filters, params.limit, params.offset)
        call == [called |-> TRUE, filters |-> params.filters,
                 limit |-> params.limit, offset |-> params.offset,
                 allResults |-> listed.allResults, err |-> listed.err]
    IN IF listed.err = "panic"
       THEN [op |-> "list", req |-> req, status |-> 0, body |-> "panic",
             list |-> call]
       ELSE IF listed.err # "nil"
       THEN [ErrorResponse("list", req, 500, "Internal Server Error", listed.err)
             EXCEPT !.list = call]
       ELSE [op |-> "list", req |-> req, status |-> 200,
             body |-> [Data |-> listed.data, Count |-> listed.count,
                       FiltersApplied |-> params.filters],
             list |-> call]

\* GET /strings/list with the given query string
ServeList(query) ==
    LET req == [method |-> "GET", query |-> query]
        params == listParams(query)
    IN IF params.err # "nil"
       THEN resp' = ErrorResponse("list", req, 400, "Bad Request", params.err)
       ELSE \E order \in Perms(DOMAIN store) :
               resp' = listResponse(req, params, order)

\* GET /strings/list: a fresh request, or a client that has just received
\* the first page of a listing and asks for a page of the same listing (same
\* filters and limit, any offset)
ListStrings ==
    /\ UNCHANGED <<store, now, arg, ret, reqs, mu>>
    /\ \/ /\ Idle
          /\ \E query \in Queries : ServeList(query)
       \/ /\ resp.op = "list"
          /\ resp.status = 200
          /\ resp.list.offset = 0
          /\ \E offset \in Offsets :
                ServeList([resp.req.query EXCEPT !.offset = offset])

\* the client has read the response
ResponseRead ==
    /\ ~Idle
    /\ resp' = NoResp
    /\ UNCHANGED <<store, now, arg, ret, reqs, mu>>

Next ==
    \/ CreateString
    \/ GetString
    \/ DeleteString
    \/ ListStrings
    \/ ResponseRead

Spec == Init /\ [][Next]_vars

-----------------------------------------------------------------------------
(* handlers.go: the natural-language parser.  The parser works on the      *)
(* lowercased query; its indices are byte offsets of ASCII keywords, which *)
(* cut a well-formed UTF-8 string at the same places as the code point     *)
(* offsets used here.                                                      *)

kwPalindrom == <<112, 97, 108, 105, 110, 100, 114, 111, 109>>
kwWord == <<119, 111, 114, 100>>
kwWords == <<119, 111, 114, 100, 115>>
kwSingle == <<115, 105, 110, 103, 108, 101>>
kwThan == <<116, 104, 97, 110>>
kwLonger == <<108, 111, 110, 103, 101, 114>>
kwShorter == <<115, 104, 111, 114, 116, 101, 114>>
kwContaining == <<99, 111, 110, 116, 97, 105, 110, 105, 110, 103>>
kwContains == <<99, 111, 110, 116, 97, 105, 110, 115>>
kwLetterSp == <<108, 101, 116, 116, 101, 114, 32>>    \* "letter "

\* strings.Index: the offset of the first occurrence of substr in s, or -1
Index(s, substr) ==
    LET hits == {i \in 0..(Len(s) - Len(substr)) :
                    SubSeq(s, i + 1, i + Len(substr)) = substr}
    IN IF hits = {} THEN -1 ELSE CHOOSE i \in hits : \A j \in hits : i <= j

\* strings.Contains
Contains(s, substr) == Index(s, substr) # -1

\* strings.TrimSpace
TrimSpace(s) ==
    LET kept == {i \in 1..Len(s) : ~IsSpace(s[i])}
    IN IF kept = {} THEN << >>
       ELSE SubSeq(s, CHOOSE i \in kept : \A j \in kept : i <= j,
                      CHOOSE i \in kept : \A j \in kept : i >= j)

\* the palindrome check, had it read the query before it was lowercased
palindromeFilterOfRaw(query, lower) ==
    IF Contains(query, kwPalindrom) THEN "is_palindrome" :> TRUE ELSE NoFilters

\* the palindrome check of the parser
palindromeFilter(query, lower) ==
    IF Contains(lower, kwPalindrom) THEN "is_palindrome" :> TRUE ELSE NoFilters

\* the word count loop from index i (0-based) on: it breaks at the first
\* "word" or "words" whose preceding token is a numeral or "single"
RECURSIVE wordCountFilter(_, _)
wordCountFilter(words, i) ==
    IF i >= Len(words) THEN NoFilters
    ELSE IF (words[i + 1] = kwWord \/ words[i + 1] = kwWords) /\ i > 0
    THEN LET count == Atoi(words[i])
         IN IF count.err = "nil" THEN "word_count" :> count.n
            ELSE IF words[i] = kwSingle THEN "word_count" :> 1
            ELSE wordCountFilter(words, i + 1)
    ELSE wordCountFilter(words, i + 1)

\* the length loop, had a filter once set been kept
RECURSIVE lengthFiltersFirstWins(_, _, _)
lengthFiltersFirstWins(words, i, filters) ==
    IF i >= Len(words) THEN filters
    ELSE IF words[i + 1] = kwThan /\ i > 0 /\ i < Len(words) - 1
    THEN LET length == Atoi(words[i + 2])
         IN IF length.err = "nil" /\ words[i] = kwLonger
            THEN lengthFiltersFirstWins(words, i + 1,
                                        filters @@ ("min_length" :> length.n + 1))
            ELSE IF length.err = "nil" /\ words[i] = kwShorter
            THEN lengthFiltersFirstWins(words, i + 1,
                                        filters @@ ("max_length" :> length.n - 1))
            ELSE lengthFiltersFirstWins(words, i + 1, filters)
    ELSE lengthFiltersFirstWins(words, i + 1, filters)

\* the length loop from index i (0-based) on, filters being the entries
\* written so far: every write replaces the entry of its key
RECURSIVE lengthFilters(_, _, _)
lengthFilters(words, i, filters) ==
    IF i >= Len(words) THEN filters
    ELSE IF words[i + 1] = kwThan /\ i > 0 /\ i < Len(words) - 1
    THEN LET length == Atoi(words[i + 2])
         IN IF length.err = "nil" /\ words[i] = kwLonger
            THEN lengthFilters(words, i + 1,
                               ("min_length" :> length.n + 1) @@ filters)
            ELSE IF length.err = "nil" /\ words[i] = kwShorter
            THEN lengthFilters(words, i + 1,
                               ("max_length" :> length.n - 1) @@ filters)
            ELSE lengthFilters(words, i + 1, filters)
    ELSE lengthFilters(words, i + 1, filters)

\* the contains heuristics, had the last word been looked at without the
\* keyword
containsFilterUnguarded(lower, words) ==
    IF Len(words) = 0 THEN [panic |-> TRUE, filters |-> NoFilters]
    ELSE LET lastWord == words[Len(words)]
         IN [panic |-> FALSE,
             filters |-> IF Len(lastWord) = 1
                         THEN "contains_character" :> lastWord ELSE NoFilters]

\* the contains heuristics, had the character after "letter " been read
\* without trimming
containsFilterUntrimmed(lower, words) ==
    LET containing == Index(lower, kwContaining)
        containsIndex == IF containing = -1 THEN Index(lower, kwContains)
                         ELSE containing
        searchWord == IF containing = -1 THEN kwContains ELSE kwContaining
        remainingStr == SubSeq(lower, containsIndex + Len(searchWord) + 1,
                               Len(lower))
        letterIndex == Index(remainingStr, kwLetterSp)
        charAfter == SubSeq(remainingStr, letterIndex + Len(kwLetterSp) + 1,
                            Len(remainingStr))
    IN IF containsIndex = -1 THEN [panic |-> FALSE, filters |-> NoFilters]
       ELSE IF letterIndex # -1
       THEN [panic |-> FALSE,
             filters |-> IF Len(Utf8(charAfter)) > 0
                         THEN "contains_character" :> <<charAfter[1]>>
                         ELSE NoFilters]
       ELSE IF Len(words) = 0 THEN [panic |-> TRUE, filters |-> NoFilters]
       ELSE LET lastWord == words[Len(words)]
            IN [panic |-> FALSE,
                filters |-> IF Len(lastWord) = 1
                            THEN "contains_character" :> lastWord
                            ELSE NoFilters]

\* the "contains X" / "containing X" heuristics; panic is the index out of
\* range of words[len(words)-1] on an empty words
containsFilter(lower, words) ==
    LET containing == Index(lower, kwContaining)
        containsIndex == IF containing = -1 THEN Index(lower, kwContains)
                         ELSE containing
        searchWord == IF containing = -1 THEN kwContains ELSE kwContaining
        remainingStr == SubSeq(lower, containsIndex + Len(searchWord) + 1,
                               Len(lower))
        letterIndex == Index(remainingStr, kwLetterSp)
        charAfter == TrimSpace(SubSeq(remainingStr,
                                      letterIndex + Len(kwLetterSp) + 1,
                                      Len(remainingStr)))
    IN IF containsIndex = -1 THEN [panic |-> FALSE, filters |-> NoFilters]
       ELSE IF letterIndex # -1
       THEN [panic |-> FALSE,
             filters |-> IF Len(Utf8(charAfter)) > 0
                         THEN "contains_character" :> <<charAfter[1]>>
                         ELSE NoFilters]
       ELSE IF Len(words) = 0 THEN [panic |-> TRUE, filters |-> NoFilters]
       ELSE LET lastWord == words[Len(words)]
            IN [panic |-> FALSE,
                filters |-> IF Len(lastWord) = 1
                            THEN "contains_character" :> lastWord
                            ELSE NoFilters]

parseNaturalLanguageQuery(query) ==
    LET lower == ToLower(query)
        words == Fields(lower)
        contained == containsFilter(lower, words)
    IN [filters |-> contained.filters
                       @@ lengthFilters(words, 0, NoFilters)
                       @@ wordCountFilter(words, 0)
                       @@ palindromeFilter(query, lower),
        err |-> "nil",
        panic |-> contained.panic]

-----------------------------------------------------------------------------
(* GET /strings/filter-by-natural-language over a seeded store *)

MaxPhrases == 2      \* most phrases joined into one enumerated query

stringsContainingZ ==
    <<115, 116, 114, 105, 110, 103, 115, 32, 99, 111, 110, 116, 97, 105,
      110, 105, 110, 103, 32, 122>>

\* the values seeded by the tests of the endpoint
NLSeedValues == {racecar, helloWorld, stringsContainingZ}

\* seedStore
SeededStore(values) == [v \in values |-> NewResource(v, 0)]

\* the phrases the enumerated queries are made of
Phrases ==
    {<<115, 116, 114, 105, 110, 103, 115>>,    \* "strings"
     <<115, 105, 110, 103, 108, 101>>,    \* "single"
     <<119, 111, 114, 100>>,    \* "word"
     <<119, 111, 114, 100, 115>>,    \* "words"
     <<50>>,    \* "2"
     <<45, 53>>,    \* "-5"
     <<115, 105, 110, 103, 108, 101, 32, 119, 111, 114, 100>>,    \* "single word"
     <<50, 32, 119, 111, 114, 100, 115>>,    \* "2 words"
     <<116, 104, 97, 110>>,    \* "than"
     <<108, 111, 110, 103, 101, 114, 32, 116, 104, 97, 110>>,    \* "longer than"
     <<115, 104, 111, 114, 116, 101, 114, 32, 116, 104, 97, 110>>,    \* "shorter than"
     <<49, 48>>,    \* "10"
     <<108, 111, 110, 103, 101, 114, 32, 116, 104, 97, 110, 32, 49, 48>>,    \* "longer than 10"
     <<108, 111, 110, 103, 101, 114, 32, 116, 104, 97, 110, 32, 51>>,    \* "longer than 3"
     <<115, 104, 111, 114, 116, 101, 114, 32, 116, 104, 97, 110, 32, 48>>,    \* "shorter than 0"
     <<99, 111, 110, 116, 97, 105, 110, 115>>,    \* "contains"
     <<99, 111, 110, 116, 97, 105, 110, 105, 110, 103>>,    \* "containing"
     <<99, 111, 110, 116, 97, 105, 110, 105, 110, 103, 32, 116, 104, 101,
       32, 108, 101, 116, 116, 101, 114>>,    \* "containing the letter"
     <<108, 101, 116, 116, 101, 114>>,    \* "letter"
     <<122>>,    \* "z"
     <<32, 122>>,    \* " z"
     <<233>>,    \* "U+00E9"
     <<97, 98>>,    \* "ab"
     <<32>>,    \* " "
     <<80, 97, 108, 105, 110, 100, 114, 111, 109, 105, 99>>}    \* "Palindromic"

\* the phrases joined by single spaces
RECURSIVE Sentence(_)
Sentence(phrases) ==
    IF Len(phrases) = 0 THEN << >>
    ELSE IF Len(phrases) = 1 THEN phrases[1]
    ELSE phrases[1] \o <<32>> \o Sentence(Tail(phrases))

allSingleWordPalindromicStrings ==
    <<97, 108, 108, 32, 115, 105, 110, 103, 108, 101, 32, 119, 111, 114,
      100, 32, 112, 97, 108, 105, 110, 100, 114, 111, 109, 105, 99, 32,
      115, 116, 114, 105, 110, 103, 115>>

stringsLongerThan10Characters ==
    <<115, 116, 114, 105, 110, 103, 115, 32, 108, 111, 110, 103, 101, 114,
      32, 116, 104, 97, 110, 32, 49, 48, 32, 99, 104, 97, 114, 97, 99, 116,
      101, 114, 115>>

stringsContainingTheLetterZ ==
    <<115, 116, 114, 105, 110, 103, 115, 32, 99, 111, 110, 116, 97, 105,
      110, 105, 110, 103, 32, 116, 104, 101, 32, 108, 101, 116, 116, 101,
      114, 32, 122>>

containsTheLetterAContainingB ==
    <<99, 111, 110, 116, 97, 105, 110, 115, 32, 116, 104, 101, 32, 108,
      101, 116, 116, 101, 114, 32, 97, 32, 99, 111, 110, 116, 97, 105, 110,
      105, 110, 103, 32, 98>>

\* the queries of the tests, and one that holds both keywords
NLTestQueries ==
    {allSingleWordPalindromicStrings, stringsLongerThan10Characters,
     stringsContainingTheLetterZ, containsTheLetterAContainingB}

\* the query parameter of the requests; the empty string is what
\* Query().Get returns when it is absent
NLQueries ==
    {EmptyString} \cup NLTestQueries
        \cup {Sentence(p) : p \in UNION {[1..k -> Phrases] : k \in 1..MaxPhrases}}

InitNL ==
    /\ store = SeededStore(NLSeedValues)
    /\ now = 0
    /\ reqs = NoRequests
    /\ mu = NoMutex
    /\ resp = NoResp
    /\ arg = NoArg
    /\ ret = NoRet

\* the store's List is called with the parsed filters and the default
\* pagination, and its result is written
nlResponse(req, parsed, order) ==
    LET listed == List(store, order, parsed.filters, DefaultLimit, 0)
        call == [called |-> TRUE, filters |-> parsed.filters,
                 limit |-> DefaultLimit, offset |-> 0,
                 allResults |-> listed.allResults, err |-> listed.err]
    IN IF listed.err = "panic"
       THEN [op |-> "filter", req |-> req, status |-> 0, body |-> "panic",
             list |-> call]
       ELSE IF listed.err # "nil"
       THEN [ErrorResponse("filter", req, 500, "Internal Server Error", listed.err)
             EXCEPT !.list = call]
       ELSE [op |-> "filter", req |-> req, status |-> 200,
             body |-> [Data |-> listed.data, Count |-> listed.count,
                       InterpretedQuery |-> [Original |-> req.query,
                                             ParsedFilters |-> parsed.filters]],
             list |-> call]

\* GET /strings/filter-by-natural-language
FilterByNaturalLanguage ==
    /\ Idle
    /\ UNCHANGED <<store, now, arg, ret, reqs, mu>>
    /\ \E query \in NLQueries :
          LET req == [method |-> "GET", query |-> query]
              parsed == parseNaturalLanguageQuery(query)
          IN IF query = EmptyString
             THEN resp' = ErrorResponse("filter", req, 400, "Bad Request",
                                        "Missing required query parameter: query")
             ELSE IF parsed.panic
             THEN resp' = [op |-> "filter", req |-> req, status |-> 0,
                           body |-> "panic", list |-> NoList]
             ELSE IF parsed.err # "nil"
             THEN resp' = ErrorResponse("filter", req, 400, "Bad Request",
                                        "Unable to parse query")
             ELSE \E order \in Perms(DOMAIN store) :
                     resp' = nlResponse(req, parsed, order)

NextNL == FilterByNaturalLanguage \/ ResponseRead

SpecNL == InitNL /\ [][NextNL]_vars

-----------------------------------------------------------------------------
(* main.go: SQLiteStore.  The table strings is a function from the value   *)
(* column (UNIQUE) to the rows; fault says that the database call of the   *)
(* method returned an error of the driver (I/O error, database locked).    *)

TicksPerSecond == 2    \* clock readings per second: RFC3339 keeps seconds

boolToInt(b) == IF b THEN 1 ELSE 0

intToBool(i) == i # 0

\* json.Marshal / json.Unmarshal of the frequency map: the text of the map
JSONMarshal(freqMap) == <<"json", freqMap>>
JSONUnmarshal(text) == text[2]

\* Time.Format(time.RFC3339) and time.Parse(time.RFC3339, ...)
FormatRFC3339(t) == <<"RFC3339", t \div TicksPerSecond>>
ParseRFC3339(text) == text[2] * TicksPerSecond

\* the row written by the INSERT of Create
RowOf(sr) ==
    [id |-> sr.ID, value |-> sr.Value, length |-> sr.Properties.Length,
     is_palindrome |-> boolToInt(sr.Properties.IsPalindrome),
     unique_characters |-> sr.Properties.UniqueCharacters,
     word_count |-> sr.Properties.WordCount,
     sha256_hash |-> sr.Properties.SHA256Hash,
     char_freq_map |-> JSONMarshal(sr.Properties.CharacterFrequencyMap),
     created_at |-> FormatRFC3339(sr.CreatedAt)]

\* the resource Get builds from a row
ScanRow(row) ==
    [ID |-> row.id, Value |-> row.value,
     Properties |-> [Length |-> row.length,
                     IsPalindrome |-> intToBool(row.is_palindrome),
                     UniqueCharacters |-> row.unique_characters,
                     WordCount |-> row.word_count,
                     SHA256Hash |-> row.sha256_hash,
                     CharacterFrequencyMap |-> JSONUnmarshal(row.char_freq_map)],
     CreatedAt |-> ParseRFC3339(row.created_at)]

SQLiteCreate(s, sr, fault) ==
    IF fault THEN [store |-> s, err |-> "driver error"]
    ELSE IF sr.Value \in DOMAIN s \/ \E v \in DOMAIN s : s[v].id = sr.ID
    THEN [store |-> s, err |-> "constraint failed"]
    ELSE [store |-> (sr.Value :> RowOf(sr)) @@ s, err |-> "nil"]

SQLiteGet(s, value, fault) ==
    IF fault THEN [res |-> "nil", err |-> "driver error"]
    ELSE IF value \notin DOMAIN s THEN [res |-> "nil", err |-> "string not found"]
    ELSE [res |-> ScanRow(s[value]), err |-> "nil"]

SQLiteDelete(s, value, fault) ==
    IF fault THEN [store |-> s, err |-> "driver error"]
    ELSE IF value \notin DOMAIN s THEN [store |-> s, err |-> "string not found"]
    ELSE [store |-> [v \in DOMAIN s \ {value} |-> s[v]], err |-> "nil"]

\* Exists reports whether the scan succeeded
SQLiteExists(s, value, fault) == ~fault /\ value \in DOMAIN s

-----------------------------------------------------------------------------
(* handlers.go: the handlers of /strings over the SQLite store, as main    *)
(* wires them.  resp also keeps the value the store was called with and    *)
(* the error the store returned.                                           *)

StoreCall(value, err) == [storeKey |-> value, storeErr |-> err]

\* POST /strings
CreateStringSQL ==
    /\ Idle
    /\ UNCHANGED <<arg, ret, reqs, mu>>
    /\ \/ /\ \E method \in Methods \ {"POST"} :
                resp' = ErrorResponse("create", [method |-> method], 405,
                                      "Method Not Allowed", "Only POST is allowed")
          /\ UNCHANGED <<store, now>>
       \/ \E body \in Bodies, existsFault \in BOOLEAN :
             LET req == [method |-> "POST", json |-> body.json, value |-> body.value]
             IN IF ~req.json
                THEN /\ resp' = ErrorResponse("create", req, 400, "Bad Request",
                                              "Invalid JSON")
                     /\ UNCHANGED <<store, now>>
                ELSE IF req.value = EmptyString
                THEN /\ resp' = ErrorResponse("create", req, 400, "Bad Request",
                                              "Missing required field: value")
                     /\ UNCHANGED <<store, now>>
                ELSE IF SQLiteExists(store, req.value, existsFault)
                THEN /\ resp' = ErrorResponse("create", req, 409, "Conflict",
                                              "String already exists")
                     /\ UNCHANGED <<store, now>>
                ELSE \E t \in Clock, createFault \in BOOLEAN :
                        LET resource == NewResource(req.value, t)
                            created == SQLiteCreate(store, resource, createFault)
                        IN /\ Cardinality(DOMAIN store) < MaxStore
                           /\ now' = t
                           /\ store' = created.store
                           /\ resp' = StoreCall(req.value, created.err) @@
                                      IF created.err # "nil"
                                      THEN ErrorResponse("create", req, 500,
                                              "Internal Server Error", created.err)
                                      ELSE JSONResponse("create", req, 201, resource)

\* GET /strings/{string_value}
GetStringSQL ==
    /\ Idle
    /\ UNCHANGED <<store, now, arg, ret, reqs, mu>>
    /\ \E path \in Paths, fault \in BOOLEAN :
          LET req == [method |-> "GET", path |-> path]
              unescaped == PathUnescape(path)
              got == SQLiteGet(store, unescaped.str, fault)
          IN resp' =
                IF path = EmptyString
                THEN ErrorResponse("get", req, 400, "Bad Request",
                                   "Missing string value in path")
                ELSE IF unescaped.err # "nil"
                THEN ErrorResponse("get", req, 400, "Bad Request",
                                   "Invalid URL encoding")
                ELSE StoreCall(unescaped.str, got.err) @@
                     IF got.err # "nil"
                     THEN ErrorResponse("get", req, 404, "Not Found",
                                        "String not found")
                     ELSE JSONResponse("get", req, 200, got.res)

\* DELETE /strings/{string_value}
DeleteStringSQL ==
    /\ Idle
    /\ UNCHANGED <<now, arg, ret, reqs, mu>>
    /\ \E path \in Paths, fault \in BOOLEAN :
          LET req == [method |-> "DELETE", path |-> path]
              unescaped == PathUnescape(path)
              deleted == SQLiteDelete(store, unescaped.str, fault)
          IN IF path = EmptyString
             THEN /\ resp' = ErrorResponse("delete", req, 400, "Bad Request",
                                           "Missing string value in path")
                  /\ UNCHANGED store
             ELSE IF unescaped.err # "nil"
             THEN /\ resp' = ErrorResponse("delete", req, 400, "Bad Request",
                                           "Invalid URL encoding")
                  /\ UNCHANGED store
             ELSE /\ store' = deleted.store
                  /\ resp' = StoreCall(unescaped.str, deleted.err) @@
                             IF deleted.err # "nil"
                             THEN ErrorResponse("delete", req, 404, "Not Found",
                                                "String not found")
                             ELSE JSONResponse("delete", req, 204, "no content")

NextSQL ==
    \/ CreateStringSQL
    \/ GetStringSQL
    \/ DeleteStringSQL
    \/ ResponseRead

SpecSQL == Init /\ [][NextSQL]_vars

-----------------------------------------------------------------------------
(* main.go: SQLiteStore.List.  The statements are evaluated row by row,    *)
(* the terms of the WHERE clause from left to right, a false term ending   *)
(* the evaluation of its row.                                              *)

Max(a, b) == IF a > b THEN a ELSE b

\* the characters that can not follow "$." as an unquoted label of a JSON
\* path: '.', '[' and '"'
PathBreakers == {46, 91, 34}

\* json_extract(char_freq_map, '$.' || c) IS NOT NULL on the text written by
\* JSONMarshal, for c of one character as the handlers pass it: a path
\* error, or whether the object has the label c
JSONExtractIsNotNull(text, c) ==
    IF c = EmptyString \/ c[1] \in PathBreakers
    THEN [err |-> "JSON path error", holds |-> FALSE]
    ELSE [err |-> "nil", holds |-> c \in DOMAIN JSONUnmarshal(text)]

\* the WHERE clause built from the filters, evaluated on one row
whereClause(row, filters) ==
    LET Has(key) == key \in DOMAIN filters
    IN IF Has("is_palindrome")
             /\ row.is_palindrome # boolToInt(filters["is_palindrome"])
       THEN [err |-> "nil", holds |-> FALSE]
       ELSE IF Has("min_length") /\ ~(row.length >= filters["min_length"])
       THEN [err |-> "nil", holds |-> FALSE]
       ELSE IF Has("max_length") /\ ~(row.length <= filters["max_length"])
       THEN [err |-> "nil", holds |-> FALSE]
       ELSE IF Has("word_count") /\ row.word_count # filters["word_count"]
       THEN [err |-> "nil", holds |-> FALSE]
       ELSE IF Has("contains_character")
       THEN JSONExtractIsNotNull(row.char_freq_map, filters["contains_character"])
       ELSE [err |-> "nil", holds |-> TRUE]

\* the first error met by a statement that evaluates the clause on s
whereError(s, filters) ==
    IF \E v \in DOMAIN s : whereClause(s[v], filters).err # "nil"
    THEN "JSON path error" ELSE "nil"

\* the main query, LIMIT and OFFSET included, and the scan of its rows;
\* rowOrder is the order in which the statement visits the table
SQLiteSelect(s, rowOrder, filters, limit, offset) ==
    LET visited == [i \in 1..Len(rowOrder) |-> s[rowOrder[i]]]
        matched == SelectSeq(visited, LAMBDA row : whereClause(row, filters).holds)
        first == Max(offset, 0) + 1
        last == IF limit < 0 THEN Len(matched)
                ELSE Min(Len(matched), Max(offset, 0) + limit)
        page == SubSeq(matched, first, last)
    IN IF whereError(s, filters) # "nil"
       THEN [results |-> << >>, err |-> whereError(s, filters)]
       ELSE [results |-> [i \in 1..Len(page) |-> ScanRow(page[i])], err |-> "nil"]

\* the count query
SQLiteCount(s, filters) ==
    IF whereError(s, filters) # "nil"
    THEN [total |-> 0, err |-> whereError(s, filters)]
    ELSE [total |-> Cardinality({v \in DOMAIN s : whereClause(s[v], filters).holds}),
          err |-> "nil"]

\* List: the main query runs on the table as it is then (s), the count
\* query on the table as it is when the rows have been scanned (later)
SQLiteList(s, later, rowOrder, filters, limit, offset) ==
    LET selected == SQLiteSelect(s, rowOrder, filters, limit, offset)
        counted == SQLiteCount(later, filters)
    IN IF selected.err # "nil"
       THEN [data |-> << >>, count |-> 0, err |-> selected.err]
       ELSE IF counted.err # "nil"
       THEN [data |-> << >>, count |-> 0, err |-> counted.err]
       ELSE [data |-> selected.results, count |-> counted.total, err |-> "nil"]

-----------------------------------------------------------------------------
(* Direct calls of List on both backends holding the same resources *)

aDotOne == <<97, 46, 32, 49>>    \* "a. 1"

ListSeedValues == {madam, helloWorld, aDotOne}

\* the table after the same Create calls
SeededTable(values) == [v \in values |-> RowOf(NewResource(v, 0))]

\* filter sets as the handlers build them, with punctuation, white space and
\* a digit as contains_character, and one with a key no backend knows
ListFilterSets ==
    {NoFilters,
     "is_palindrome" :> TRUE,
     "is_palindrome" :> FALSE,
     "min_length" :> 5,
     "max_length" :> 4,
     "word_count" :> 2,
     "contains_character" :> <<97>>,      \* a
     "contains_character" :> <<65>>,      \* A
     "contains_character" :> <<46>>,      \* .
     "contains_character" :> <<32>>,      \* space
     "contains_character" :> <<49>>,      \* 1
     "sort_by" :> 0,
     ("min_length" :> 5) @@ ("max_length" :> 4),
     ("is_palindrome" :> TRUE) @@ ("word_count" :> 1),
     ("word_count" :> 1) @@ ("contains_character" :> <<97>>),
     ("word_count" :> 2) @@ ("contains_character" :> <<46>>)}

ListLimits == {1, 2, DefaultLimit}

ListOffsets == {0, 1, 4}

InitList ==
    /\ store = << >>
    /\ now = 0
    /\ reqs = NoRequests
    /\ mu = NoMutex
    /\ resp = NoResp
    /\ ret = NoRet
    /\ \E values \in SUBSET ListSeedValues, filters \in ListFilterSets,
          limit \in ListLimits, offset \in ListOffsets :
          arg = [fn |-> "List", values |-> values, filters |-> filters,
                 limit |-> limit, offset |-> offset]

CallList ==
    /\ arg.fn = "List"
    /\ ret = NoRet
    /\ \E order \in Perms(arg.values), rowOrder \in Perms(arg.values) :
          ret' = [fn |-> "List",
                  memory |-> List(SeededStore(arg.values), order, arg.filters,
                                  arg.limit, arg.offset),
                  sqlite |-> SQLiteList(SeededTable(arg.values),
                                        SeededTable(arg.values), rowOrder,
                                        arg.filters, arg.limit, arg.offset)]
    /\ UNCHANGED <<store, now, resp, arg, reqs, mu>>

NextList == CallList

SpecList == InitList /\ [][NextList]_vars

-----------------------------------------------------------------------------
(* The server under concurrent requests: net/http runs every handler on a  *)
(* goroutine of its own, all over the one store.  A handler is cut where   *)
(* a method of the store takes or releases the mutex, or begins or ends    *)
(* its database call.  The requests are the well-formed ones, which reach  *)
(* the store.                                                              *)

Goroutines == {1, 2}

ConcValues == {test, madam}

NoRequest ==
    [op |-> "none", value |-> EmptyString, method |-> "none", pc |-> "idle",
     conc |-> {}, t |-> 0, status |-> 0, data |-> << >>, count |-> 0,
     from |-> << >>]

\* InMemoryStore.mu, SQLiteStore.mu: w is the goroutine holding the lock for
\* writing (0: none), r the goroutines holding it for reading
NewRWMutex == [type |-> "RWMutex", w |-> 0, r |-> {}]
NewMutex == [type |-> "Mutex", w |-> 0, r |-> {}]

InitConc ==
    /\ store = << >>
    /\ now = 0
    /\ resp = NoResp
    /\ arg = NoArg
    /\ ret = NoRet
    /\ reqs = [p \in Goroutines |-> NoRequest]
    /\ mu \in {NewRWMutex, NewMutex}

InFlight(p) == reqs[p].pc \notin {"idle", "done"}

\* the store method a handler calls first
firstCall(op) ==
    CASE op = "POST" -> "Exists"
      [] op = "GET" -> "Get"
      [] op = "DELETE" -> "Delete"
      [] op = "LIST" -> "List"

\* a request arrives and its handler runs up to its first call of the store;
\* conc collects the requests that are in flight during this one
Receive(p) ==
    /\ ~InFlight(p)
    /\ \E op \in {"POST", "GET", "DELETE", "LIST"}, value \in ConcValues :
          LET others == {q \in Goroutines \ {p} : InFlight(q)}
              request == [NoRequest EXCEPT
                             !.op = op,
                             !.value = IF op = "LIST" THEN EmptyString ELSE value,
                             !.method = firstCall(op),
                             !.pc = "call",
                             !.conc = others]
          IN reqs' = [q \in Goroutines |->
                        IF q = p THEN request
                        ELSE IF q \in others
                        THEN [reqs[q] EXCEPT !.conc = @ \cup {p}]
                        ELSE reqs[q]]
    /\ UNCHANGED <<store, now, resp, arg, ret, mu>>

\* s.mu.Lock() of Create and Delete, on both stores
BeginWrite(p) ==
    /\ reqs[p].pc = "call"
    /\ reqs[p].method \in {"Create", "Delete"}
    /\ mu.w = 0
    /\ mu.r = {}
    /\ mu' = [mu EXCEPT !.w = p]
    /\ reqs' = [reqs EXCEPT ![p].pc = "in"]
    /\ UNCHANGED <<store, now, resp, arg, ret>>

\* s.mu.RLock() of Get, Exists and List of InMemoryStore; the same methods
\* of SQLiteStore go to the database without taking the mutex
BeginRead(p) ==
    /\ reqs[p].pc = "call"
    /\ reqs[p].method \in {"Exists", "Get", "List"}
    /\ IF mu.type = "RWMutex"
       THEN /\ mu.w = 0
            /\ mu' = [mu EXCEPT !.r = @ \cup {p}]
       ELSE mu' = mu
    /\ reqs' = [reqs EXCEPT ![p].pc = "in"]
    /\ UNCHANGED <<store, now, resp, arg, ret>>

\* the deferred Unlock or RUnlock
Released(p) ==
    IF mu.w = p THEN [mu EXCEPT !.w = 0] ELSE [mu EXCEPT !.r = @ \ {p}]

\* Exists returns to CreateString, which answers 409 or computes the
\* resource, reads the clock and calls Create
ExistsReturn(p) ==
    /\ reqs[p].pc = "in"
    /\ reqs[p].method = "Exists"
    /\ LET found == IF mu.type = "RWMutex"
                    THEN Exists(store, reqs[p].value)
                    ELSE SQLiteExists(store, reqs[p].value, FALSE)
       IN IF found
          THEN /\ reqs' = [reqs EXCEPT ![p].pc = "done", ![p].status = 409]
               /\ now' = now
          ELSE \E t \in Clock :
                  /\ now' = t
                  /\ reqs' = [reqs EXCEPT ![p].method = "Create",
                                          ![p].pc = "call", ![p].t = t]
    /\ mu' = Released(p)
    /\ UNCHANGED <<store, resp, arg, ret>>

\* Create writes and returns to CreateString, which answers 201 or 500
CreateReturn(p) ==
    /\ reqs[p].pc = "in"
    /\ reqs[p].method = "Create"
    /\ LET resource == NewResource(reqs[p].value, reqs[p].t)
           created == IF mu.type = "RWMutex"
                      THEN Create(store, resource)
                      ELSE SQLiteCreate(store, resource, FALSE)
       IN /\ store' = created.store
          /\ reqs' = [reqs EXCEPT ![p].pc = "done",
                         ![p].status = IF created.err # "nil" THEN 500 ELSE 201]
    /\ mu' = Released(p)
    /\ UNCHANGED <<now, resp, arg, ret>>

\* Get returns to GetString, which answers 200 or 404
GetReturn(p) ==
    /\ reqs[p].pc = "in"
    /\ reqs[p].method = "Get"
    /\ LET got == IF mu.type = "RWMutex"
                  THEN Get(store, reqs[p].value)
                  ELSE SQLiteGet(store, reqs[p].value, FALSE)
       IN reqs' = [reqs EXCEPT ![p].pc = "done",
                      ![p].status = IF got.err # "nil" THEN 404 ELSE 200]
    /\ mu' = Released(p)
    /\ UNCHANGED <<store, now, resp, arg, ret>>

\* Delete writes and returns to DeleteString, which answers 204 or 404
DeleteReturn(p) ==
    /\ reqs[p].pc = "in"
    /\ reqs[p].method = "Delete"
    /\ LET deleted == IF mu.type = "RWMutex"
                      THEN Delete(store, reqs[p].value)
                      ELSE SQLiteDelete(store, reqs[p].value, FALSE)
       IN /\ store' = deleted.store
          /\ reqs' = [reqs EXCEPT ![p].pc = "done",
                         ![p].status = IF deleted.err # "nil" THEN 404 ELSE 204]
    /\ mu' = Released(p)
    /\ UNCHANGED <<now, resp, arg, ret>>

\* SQLiteStore.List has run its main query and scanned the rows: from is
\* the table the query ran on
ListQuery(p) ==
    /\ reqs[p].pc = "in"
    /\ reqs[p].method = "List"
    /\ mu.type = "Mutex"
    /\ reqs' = [reqs EXCEPT ![p].pc = "scanned", ![p].from = store]
    /\ UNCHANGED <<store, now, resp, arg, ret, mu>>

\* List returns to ListStrings, which answers 200 or 500: InMemoryStore.List
\* has collected and paged under the read lock, SQLiteStore.List has run
\* its count query
ListReturn(p) ==
    /\ reqs[p].method = "List"
    /\ \/ /\ mu.type = "RWMutex"
          /\ reqs[p].pc = "in"
          /\ \E order \in Perms(DOMAIN store) :
                LET listed == List(store, order, NoFilters, DefaultLimit, 0)
                IN reqs' = [reqs EXCEPT
                              ![p].pc = "done",
                              ![p].status = IF listed.err # "nil" THEN 500 ELSE 200,
                              ![p].data = [i \in 1..Len(listed.data) |->
                                             listed.data[i].Value],
                              ![p].count = listed.count,
                              ![p].from = store]
       \/ /\ mu.type = "Mutex"
          /\ reqs[p].pc = "scanned"
          /\ \E rowOrder \in Perms(DOMAIN reqs[p].from) :
                LET listed == SQLiteList(reqs[p].from, store, rowOrder,
                                         NoFilters, DefaultLimit, 0)
                IN reqs' = [reqs EXCEPT
                              ![p].pc = "done",
                              ![p].status = IF listed.err # "nil" THEN 500 ELSE 200,
                              ![p].data = [i \in 1..Len(listed.data) |->
                                             listed.data[i].Value],
                              ![p].count = listed.count]
    /\ mu' = Released(p)
    /\ UNCHANGED <<store, now, resp, arg, ret>>

NextConc ==
    \E p \in Goroutines :
       \/ Receive(p)
       \/ BeginWrite(p)
       \/ BeginRead(p)
       \/ ExistsReturn(p)
       \/ CreateReturn(p)
       \/ GetReturn(p)
       \/ DeleteReturn(p)
       \/ ListQuery(p)
       \/ ListReturn(p)

SpecConc == InitConc /\ [][NextConc]_vars

-----------------------------------------------------------------------------
(* Properties of the filter evaluator (SpecFn) *)

\* the resource and the filter set of a finished call of matchesFilters
Evaluated == ret.fn = "matchesFilters"
EvalRes == NewResource(arg.value, 0)
Present(key) == key \in DOMAIN arg.filters

\* what each filter demands of the properties, stated on its own
Holds(key) ==
    LET p == EvalRes.Properties
        v == arg.filters[key]
    IN CASE key = "is_palindrome" -> p.IsPalindrome = v
         [] key = "min_length" -> p.Length >= v
         [] key = "max_length" -> p.Length <= v
         [] key = "word_count" -> p.WordCount = v
         [] key = "contains_character" -> v \in DOMAIN p.CharacterFrequencyMap
         [] OTHER -> TRUE

\* C1: matchesFilters returns true iff the resource satisfies every filter
\* present in the set; absent filters impose nothing, so the empty set
\* matches every resource, and {is_palindrome: true, word_count: 1} matches
\* exactly the resources that are palindromes of one word.
C1_MatchesIffEveryPresentFilterHolds ==
    Evaluated =>
        /\ ret.matched <=>
              /\ Present("is_palindrome") => Holds("is_palindrome")
              /\ Present("min_length") => Holds("min_length")
              /\ Present("max_length") => Holds("max_length")
              /\ Present("word_count") => Holds("word_count")
              /\ Present("contains_character") => Holds("contains_character")
        /\ arg.filters = NoFilters => ret.matched
        /\ arg.filters = ("is_palindrome" :> TRUE) @@ ("word_count" :> 1) =>
              (ret.matched <=> /\ EvalRes.Properties.IsPalindrome
                               /\ EvalRes.Properties.WordCount = 1)

\* a two-filter set of which the resource satisfies one filter only, rejected
C1_Witness ==
    /\ Evaluated
    /\ arg.value = test
    /\ arg.filters = ("is_palindrome" :> TRUE) @@ ("word_count" :> 1)
    /\ ~ret.matched

\* C6: contains_character matches iff the supplied character is a key of the
\* resource's character_frequency_map, that is iff that very code point
\* occurs in the value (case included): 'o' matches "hello world", 'O' does not.
C6_ContainsCharacterIsExactKey ==
    (Evaluated /\ Present("contains_character")
       /\ \A key \in DOMAIN arg.filters \ {"contains_character"} : Holds(key)) =>
        LET c == arg.filters["contains_character"]
        IN /\ ret.matched <=> c \in DOMAIN EvalRes.Properties.CharacterFrequencyMap
           /\ ret.matched <=> \E i \in 1..Len(arg.value) : arg.value[i] = c[1]
           /\ (arg.value = helloWorld /\ c = <<111>>) => ret.matched
           /\ (arg.value = helloWorld /\ c = <<79>>) => ~ret.matched

\* "hello world" is asked for 'O', which it holds in the other case only
C6_Witness ==
    /\ Evaluated
    /\ arg.value = helloWorld
    /\ arg.filters = ("contains_character" :> <<79>>)
    /\ ~ret.matched

-----------------------------------------------------------------------------
(* Properties of the property computer (SpecFn) *)

Computed == ret.fn = "ComputeProperties"

RECURSIVE SumOf(_, _)
SumOf(f, S) ==
    IF S = {} THEN 0
    ELSE LET k == CHOOSE x \in S : TRUE IN f[k] + SumOf(f, S \ {k})

\* C8: length is the number of Unicode code points of the value, not of its
\* UTF-8 bytes; it equals the sum of the counts of character_frequency_map.
C8_LengthCountsCodePoints ==
    Computed =>
        /\ ret.props.Length = Len(arg.value)
        /\ ret.props.Length = SumOf(ret.props.CharacterFrequencyMap,
                                    DOMAIN ret.props.CharacterFrequencyMap)

Reverse(s) == [i \in 1..Len(s) |-> s[Len(s) + 1 - i]]

\* the value lowercased, letters and digits kept, as code points
CleanedCodePoints(s) ==
    SelectSeq([i \in 1..Len(s) |-> ToLowerRune(s[i])],
              LAMBDA r : IsLetter(r) \/ IsDigit(r))

\* C9: is_palindrome is true iff the code points of the lowercased value
\* that are letters or digits read the same in both directions; a cleaned
\* sequence of length 0 or 1 is a palindrome.
C9_PalindromeByCodePoint ==
    Computed =>
        LET cleaned == CleanedCodePoints(arg.value)
        IN /\ ret.props.IsPalindrome <=> cleaned = Reverse(cleaned)
           /\ Len(cleaned) <= 1 => ret.props.IsPalindrome

-----------------------------------------------------------------------------
(* Properties of List (Spec) *)

\* the last request reached the store's List
Listed == resp.op = "list" /\ resp.list.called

\* the stored values whose resources match the filter set
Matching(filters) == {v \in DOMAIN store : matchesFilters(store[v], filters)}

ValuesOf(results) == {results[i].Value : i \in 1..Len(results)}

\* results enumerates the matching resources of the store, each once
EnumeratesMatching(results, filters) ==
    /\ ValuesOf(results) = Matching(filters)
    /\ Len(results) = Cardinality(Matching(filters))
    /\ \A i \in 1..Len(results) : results[i] = store[results[i].Value]

\* C2: the count returned by List is the number of stored resources that
\* match the filter set, whatever limit and offset are; without filters it
\* is the number of resources in the store.
C2_CountIsNumberOfMatches ==
    Listed =>
        /\ resp.status = 200
        /\ resp.body.Count = Cardinality(Matching(resp.list.filters))
        /\ resp.list.filters = NoFilters =>
              resp.body.Count = Cardinality(DOMAIN store)

\* a page shorter than the count it comes with
C2_Witness ==
    /\ Listed
    /\ resp.status = 200
    /\ resp.list.filters # NoFilters
    /\ resp.body.Count = 2
    /\ Cardinality(DOMAIN store) = 3
    /\ Len(resp.body.Data) = 1

\* C3: with limit >= 1 and 0 <= offset < total_count, List returns exactly
\* the elements at positions [offset, min(offset+limit, total_count)) of the
\* matching sequence: min(limit, total_count - offset) items, never more.
C3_PageIsSliceOfMatches ==
    (Listed /\ resp.list.limit >= 1 /\ resp.list.offset >= 0
       /\ resp.list.offset < Len(resp.list.allResults)) =>
        LET all == resp.list.allResults
            total == Len(all)
            offset == resp.list.offset
            limit == resp.list.limit
        IN /\ resp.status = 200
           /\ resp.body.Count = total
           /\ EnumeratesMatching(all, resp.list.filters)
           /\ Len(resp.body.Data) = Min(limit, total - offset)
           /\ \A i \in 1..Len(resp.body.Data) : resp.body.Data[i] = all[offset + i]

\* a page that starts after the first match and ends before the last one
C3_Witness ==
    /\ Listed
    /\ resp.status = 200
    /\ resp.list.offset = 1
    /\ resp.list.limit = 1
    /\ Len(resp.list.allResults) = 3
    /\ resp.body.Data = <<resp.list.allResults[2]>>

\* C4: a List call whose offset is equal to or greater than total_count
\* (offset = total_count and total_count = 0 included) returns an empty
\* sequence with the true total_count and no error.
C4_OffsetPastEndIsEmpty ==
    (Listed /\ resp.list.offset >= Len(resp.list.allResults)) =>
        /\ resp.list.err = "nil"
        /\ resp.status = 200
        /\ resp.body.Data = << >>
        /\ resp.body.Count = Cardinality(Matching(resp.list.filters))

\* the offset lies beyond a non-empty matching set
C4_Witness ==
    /\ Listed
    /\ resp.status = 200
    /\ resp.list.offset > Len(resp.list.allResults)
    /\ Len(resp.list.allResults) > 0
    /\ resp.body.Data = << >>

\* two successful listings, the second following the first on an unchanged
\* store with the same filters and limit
Relisted ==
    /\ Listed /\ resp.status = 200
    /\ resp'.op = "list" /\ resp'.list.called /\ resp'.status = 200
    /\ store' = store
    /\ resp'.list.filters = resp.list.filters
    /\ resp'.list.limit = resp.list.limit

\* C5: for a fixed store state and filter set List enumerates the matching
\* resources in the same order on every call, so the pages at offsets 0 and
\* limit are disjoint and, when they reach the end, hold every match once.
C5_PagesOfOneEnumeration ==
    [][Relisted =>
         /\ resp'.list.allResults = resp.list.allResults
         /\ (resp.list.offset = 0 /\ resp'.list.offset = resp.list.limit) =>
               /\ ValuesOf(resp.body.Data) \cap ValuesOf(resp'.body.Data) = {}
               /\ resp.body.Count <= 2 * resp.list.limit =>
                     ValuesOf(resp.body.Data) \cup ValuesOf(resp'.body.Data)
                        = Matching(resp.list.filters)]_vars

\* C7: min_length and max_length are inclusive bounds on the length
\* property; min_length > max_length yields no match and count 0, no error.
C7_LengthBoundsInclusive ==
    Listed =>
        LET f == resp.list.filters
            Length(v) == store[v].Properties.Length
        IN /\ resp.status = 200
           /\ DOMAIN f = {"min_length"} =>
                 ValuesOf(resp.list.allResults)
                    = {v \in DOMAIN store : Length(v) >= f["min_length"]}
           /\ DOMAIN f = {"max_length"} =>
                 ValuesOf(resp.list.allResults)
                    = {v \in DOMAIN store : Length(v) <= f["max_length"]}
           /\ DOMAIN f = {"min_length", "max_length"} =>
                 ValuesOf(resp.list.allResults)
                    = {v \in DOMAIN store : /\ Length(v) >= f["min_length"]
                                            /\ Length(v) <= f["max_length"]}
           /\ ({"min_length", "max_length"} \subseteq DOMAIN f
                 /\ f["min_length"] > f["max_length"]) =>
                 resp.body.Count = 0 /\ resp.body.Data = << >>

\* a resource whose length equals min_length is listed
C7_Witness ==
    /\ Listed
    /\ resp.status = 200
    /\ resp.list.filters = ("min_length" :> 5)
    /\ \E i \in 1..Len(resp.body.Data) :
          /\ resp.body.Data[i].Value = madam
          /\ resp.body.Data[i].Properties.Length = 5

-----------------------------------------------------------------------------
(* Properties of POST /strings (Spec) *)

\* C10: a POST whose value is already stored is answered 409 "Conflict" and
\* a POST with a missing or empty value 400, both leaving the store as it
\* is; only a non-empty value not yet stored is answered 201 and added.
C10_CreateOutcomes ==
    [][(Idle /\ resp'.op = "create" /\ resp'.req.method = "POST"
          /\ resp'.req.json) =>
         LET value == resp'.req.value
         IN /\ value \in DOMAIN store =>
                  /\ resp'.status = 409
                  /\ resp'.body.Error = "Conflict"
                  /\ store' = store
            /\ value = EmptyString => resp'.status = 400 /\ store' = store
            /\ resp'.status = 201 <=>
                  value # EmptyString /\ value \notin DOMAIN store
            /\ resp'.status = 201 =>
                  /\ DOMAIN store' = DOMAIN store \cup {value}
                  /\ store'[value] = resp'.body
                  /\ store'[value].Value = value
                  /\ \A v \in DOMAIN store : store'[v] = store[v]]_vars

\* a stored value was posted again and refused
C10_Witness ==
    /\ resp.op = "create"
    /\ resp.status = 409
    /\ resp.req.value \in DOMAIN store
    /\ Cardinality(DOMAIN store) >= 2

-----------------------------------------------------------------------------
(* Properties of DELETE and GET /strings/{string_value} (Spec)             *)
(* The value a client asks for is the path segment it sent path-escaped;   *)
(* net/http hands it to the handler decoded, as r.URL.Path (req.path).     *)

\* C11: DELETE /strings/{value} on a stored value answers 204 and afterwards
\* the value is no longer in the store (Exists is false, Get finds nothing)
\* while every other stored resource is untouched; DELETE on a value that is
\* not stored answers 404 and leaves the store unchanged.
C11_DeleteOutcomes ==
    [][(Idle /\ resp'.op = "delete" /\ resp'.req.path # EmptyString) =>
         LET value == resp'.req.path
         IN /\ value \in DOMAIN store =>
                  /\ resp'.status = 204
                  /\ ~Exists(store', value)
                  /\ Get(store', value).err = "string not found"
                  /\ DOMAIN store' = DOMAIN store \ {value}
                  /\ \A v \in DOMAIN store' : store'[v] = store[v]
            /\ value \notin DOMAIN store =>
                  /\ resp'.status = 404
                  /\ store' = store]_vars

\* C12: GET /strings/{value} answers 200 with the resource whose value equals
\* the requested value iff that value was created and not deleted since (the
\* store holds exactly those values); otherwise it answers 404.  GET never
\* changes the store.
C12_GetOutcomes ==
    [][(Idle /\ resp'.op = "get" /\ resp'.req.path # EmptyString) =>
         LET value == resp'.req.path
         IN /\ store' = store
            /\ resp'.status = 200 <=> value \in DOMAIN store
            /\ resp'.status = 200 =>
                  /\ resp'.body = store[value]
                  /\ resp'.body.Value = value
            /\ value \notin DOMAIN store => resp'.status = 404]_vars

-----------------------------------------------------------------------------
(* Properties of the store's content (Spec) *)

\* C13: in every reachable store state every stored resource has its id equal
\* to its properties' sha256_hash, and is stored under the key equal to its
\* own raw value, so no two stored resources share a raw value.
C13_IdIsHashKeyIsValue ==
    \A v \in DOMAIN store :
        /\ store[v].ID = store[v].Properties.SHA256Hash
        /\ store[v].ID = Sha256Hex(Utf8(store[v].Value))
        /\ store[v].Value = v
        /\ \A w \in DOMAIN store : store[w].Value = store[v].Value => w = v

\* a full store, one of its resources deleted and created again
C13_Witness ==
    /\ Cardinality(DOMAIN store) = MaxStore
    /\ \E v, w \in DOMAIN store : store[v].CreatedAt < store[w].CreatedAt
    /\ resp.op = "create"
    /\ resp.status = 201

-----------------------------------------------------------------------------
(* Properties of the natural-language parser (SpecNL) *)

\* the last request carried a non-empty query
NLServed == resp.op = "filter" /\ resp.req.query # EmptyString

\* its query was parsed and the store's List called with the result
NLParsed == NLServed /\ resp.list.called

NLLower == ToLower(resp.req.query)
NLWords == Fields(NLLower)
NLFilters == resp.list.filters

\* the query holds none of the patterns of the heuristics
NoPattern ==
    /\ ~Contains(NLLower, kwPalindrom)
    /\ ~Contains(NLLower, kwContaining)
    /\ ~Contains(NLLower, kwContains)
    /\ \A i \in 1..Len(NLWords) : NLWords[i] \notin {kwWord, kwWords, kwThan}

\* C14: parseNaturalLanguageQuery is total: for every non-empty query
\* (whitespace only, a bare keyword, a keyword as last token) it returns a
\* filter set without error or out-of-range access; a query with no
\* recognizable pattern yields the empty filter set, which matches every
\* stored resource.
C14_ParserIsTotal ==
    NLServed =>
        /\ resp.status = 200
        /\ resp.list.called
        /\ resp.list.err = "nil"
        /\ resp.body.InterpretedQuery.ParsedFilters = NLFilters
        /\ NoPattern => NLFilters = NoFilters
        /\ NLFilters = NoFilters =>
              /\ resp.body.Count = Cardinality(DOMAIN store)
              /\ ValuesOf(resp.list.allResults) = DOMAIN store

\* a query of white space only, answered with the whole store
C14_Witness ==
    /\ NLServed
    /\ NLWords = << >>
    /\ resp.status = 200
    /\ NLFilters = NoFilters
    /\ resp.body.Count = Cardinality(NLSeedValues)

\* the token parses as a non-negative integer
IsNonNegInt(tok) == Atoi(tok).err = "nil" /\ Atoi(tok).n >= 0

\* the positions of "word" / "words" preceded by a non-negative integer or
\* by "single"
WordCountPairs ==
    {i \in 2..Len(NLWords) :
        /\ NLWords[i] \in {kwWord, kwWords}
        /\ IsNonNegInt(NLWords[i - 1]) \/ NLWords[i - 1] = kwSingle}

Earliest(S) == CHOOSE i \in S : \A j \in S : i <= j
Latest(S) == CHOOSE i \in S : \A j \in S : j <= i

\* C15: word_count is set from the earliest pair "<N> word" / "<N> words"
\* with N a non-negative integer (word_count = N) or "single word"
\* (word_count = 1); a later pair never overrides it, and a preceding token
\* that is neither a non-negative integer nor "single" sets nothing.
C15_WordCountFromEarliestPair ==
    NLParsed =>
        IF WordCountPairs = {} THEN "word_count" \notin DOMAIN NLFilters
        ELSE LET preceding == NLWords[Earliest(WordCountPairs) - 1]
             IN /\ "word_count" \in DOMAIN NLFilters
                /\ NLFilters["word_count"] =
                      IF preceding = kwSingle THEN 1 ELSE Atoi(preceding).n

\* the positions of "than" between kw and an integer token
LengthTriples(kw) ==
    {i \in 2..(Len(NLWords) - 1) :
        /\ NLWords[i] = kwThan
        /\ NLWords[i - 1] = kw
        /\ Atoi(NLWords[i + 1]).err = "nil"}

\* the integer of the latest such triple
LatestN(kw) == Atoi(NLWords[Latest(LengthTriples(kw)) + 1]).n

\* C16: each "longer than N" with N an integer token sets min_length = N + 1
\* and each "shorter than N" sets max_length = N - 1, the latest occurrence
\* deciding the final value; "shorter than 0" yields max_length = -1 with no
\* validation error; a "than" that is the first or the last token sets
\* nothing.
C16_LengthFromLatestTriple ==
    NLParsed =>
        /\ resp.status = 200
        /\ "min_length" \in DOMAIN NLFilters <=> LengthTriples(kwLonger) # {}
        /\ LengthTriples(kwLonger) # {} =>
              NLFilters["min_length"] = LatestN(kwLonger) + 1
        /\ "max_length" \in DOMAIN NLFilters <=> LengthTriples(kwShorter) # {}
        /\ LengthTriples(kwShorter) # {} =>
              NLFilters["max_length"] = LatestN(kwShorter) - 1
        /\ (LengthTriples(kwShorter) # {} /\ LatestN(kwShorter) = 0) =>
              NLFilters["max_length"] = -1
        /\ (\A i \in 1..Len(NLWords) :
               NLWords[i] = kwThan => i = 1 \/ i = Len(NLWords)) =>
              DOMAIN NLFilters \cap {"min_length", "max_length"} = {}

\* "longer than 10 longer than 3": the later phrase decides
C16_Witness ==
    /\ NLParsed
    /\ Cardinality(LengthTriples(kwLonger)) = 2
    /\ Atoi(NLWords[Earliest(LengthTriples(kwLonger)) + 1]).n = 10
    /\ LatestN(kwLonger) = 3
    /\ NLFilters["min_length"] = 4

\* the keyword of the contains heuristics: "containing" if the lowercased
\* query holds it, else "contains"
ContainsKeyword ==
    IF Contains(NLLower, kwContaining) THEN kwContaining ELSE kwContains

\* the text after the first occurrence of the keyword
AfterKeyword ==
    SubSeq(NLLower, Index(NLLower, ContainsKeyword) + Len(ContainsKeyword) + 1,
           Len(NLLower))

\* the text after the first "letter " of that text
AfterLetter ==
    SubSeq(AfterKeyword, Index(AfterKeyword, kwLetterSp) + Len(kwLetterSp) + 1,
           Len(AfterKeyword))

\* the code points of s that are not white space
NonSpace(s) == SelectSeq(s, LAMBDA r : ~IsSpace(r))

LastToken == NLWords[Len(NLWords)]

\* contains_character is set to c / is not set
ContainsCharacterIs(c) ==
    /\ "contains_character" \in DOMAIN NLFilters
    /\ NLFilters["contains_character"] = c
NoContainsCharacter == "contains_character" \notin DOMAIN NLFilters

\* C17 as stated: with the keyword, if the text after it contains "letter "
\* followed by at least one character, contains_character is the first
\* character after that phrase; otherwise, if the last token of the query is
\* exactly one character long, it is that token; otherwise it is not set.
\* Without the keyword it is never set; when set it is one code point.
C17_ContainsCharacterAsStated ==
    NLParsed =>
        /\ IF ~Contains(NLLower, ContainsKeyword) THEN NoContainsCharacter
           ELSE IF Contains(AfterKeyword, kwLetterSp) /\ Len(AfterLetter) >= 1
           THEN ContainsCharacterIs(<<AfterLetter[1]>>)
           ELSE IF Len(LastToken) = 1 THEN ContainsCharacterIs(LastToken)
           ELSE NoContainsCharacter
        /\ ~NoContainsCharacter => Len(NLFilters["contains_character"]) = 1

\* C17, amended: the character taken after "letter " is the first one that
\* is not white space, and the phrase counts only if such a character
\* follows it.
C17_ContainsCharacter ==
    NLParsed =>
        /\ IF ~Contains(NLLower, ContainsKeyword) THEN NoContainsCharacter
           ELSE IF /\ Contains(AfterKeyword, kwLetterSp)
                   /\ Len(NonSpace(AfterLetter)) >= 1
           THEN ContainsCharacterIs(<<NonSpace(AfterLetter)[1]>>)
           ELSE IF Len(LastToken) = 1 THEN ContainsCharacterIs(LastToken)
           ELSE NoContainsCharacter
        /\ ~NoContainsCharacter => Len(NLFilters["contains_character"]) = 1

\* "containing the letter  z": white space lies between the phrase and the
\* character taken
C17_Witness ==
    /\ NLParsed
    /\ Contains(NLLower, kwContaining)
    /\ Contains(AfterKeyword, kwLetterSp)
    /\ Len(AfterLetter) >= 2
    /\ IsSpace(AfterLetter[1])
    /\ ContainsCharacterIs(<<122>>)

\* C18: the parsed filter set contains is_palindrome iff the lowercased query
\* contains "palindrom"; its value is then true, whatever the other
\* heuristics do; "all single word palindromic strings" parses to exactly
\* {word_count: 1, is_palindrome: true}.
C18_PalindromeIffStem ==
    NLParsed =>
        /\ "is_palindrome" \in DOMAIN NLFilters <=> Contains(NLLower, kwPalindrom)
        /\ "is_palindrome" \in DOMAIN NLFilters => NLFilters["is_palindrome"] = TRUE
        /\ resp.req.query = allSingleWordPalindromicStrings =>
              NLFilters = ("word_count" :> 1) @@ ("is_palindrome" :> TRUE)

\* the query of the test, answered with the one-word palindrome of the store
C18_Witness ==
    /\ NLParsed
    /\ resp.req.query = allSingleWordPalindromicStrings
    /\ DOMAIN NLFilters = {"word_count", "is_palindrome"}
    /\ resp.body.Count = 1
    /\ resp.body.Data[1].Value = racecar

-----------------------------------------------------------------------------
(* Properties of the parameters of GET /strings/list (Spec) *)

ListServed == resp.op = "list"

\* the request carries the parameter
Supplied(param) == resp.req.query[param] # EmptyString

\* the parameter is an integer numeral of a value of at least lo
IntegerFrom(param, lo) ==
    LET parsed == Atoi(resp.req.query[param])
    IN parsed.err = "nil" /\ parsed.n >= lo

\* some parameter supplied is malformed
Malformed ==
    \/ Supplied("is_palindrome")
          /\ ParseBool(resp.req.query.is_palindrome).err # "nil"
    \/ \E param \in {"min_length", "max_length", "word_count", "offset"} :
          /\ Supplied(param)
          /\ ~IntegerFrom(param, 0)
    \/ Supplied("contains_character")
          /\ Len(resp.req.query.contains_character) # 1
    \/ Supplied("limit")
          /\ ~(IntegerFrom("limit", 1) /\ Atoi(resp.req.query.limit).n <= LimitCeiling)

\* C19: GET /strings/list calls the store's List only with well-formed
\* arguments (min_length, max_length, word_count integers >= 0,
\* contains_character one code point, 1 <= limit <= 100 with default 25,
\* offset >= 0 with default 0); a request with a malformed parameter is
\* answered 400 without calling List; on success filters_applied contains
\* exactly the filters supplied.
C19_ListCalledWithWellFormedArguments ==
    ListServed =>
        LET f == resp.list.filters
        IN /\ Malformed <=> resp.status = 400
           /\ Malformed => ~resp.list.called
           /\ resp.list.called =>
                 /\ \A key \in DOMAIN f \cap {"min_length", "max_length", "word_count"} :
                       f[key] \in Nat /\ f[key] = Atoi(resp.req.query[key]).n
                 /\ "contains_character" \in DOMAIN f =>
                       /\ Len(f["contains_character"]) = 1
                       /\ f["contains_character"] = resp.req.query.contains_character
                 /\ "is_palindrome" \in DOMAIN f =>
                       f["is_palindrome"] = ParseBool(resp.req.query.is_palindrome).b
                 /\ resp.list.limit >= 1 /\ resp.list.limit <= LimitCeiling
                 /\ ~Supplied("limit") => resp.list.limit = DefaultLimit
                 /\ resp.list.offset >= 0
                 /\ ~Supplied("offset") => resp.list.offset = 0
                 /\ DOMAIN f = {key \in {"is_palindrome", "min_length", "max_length",
                                         "word_count", "contains_character"} :
                                   Supplied(key)}
           /\ resp.status = 200 =>
                 /\ resp.list.called
                 /\ resp.body.FiltersApplied = f

\* a well-formed filter with a limit above the ceiling, refused before List
C19_Witness ==
    /\ ListServed
    /\ resp.req.query.min_length = <<53>>
    /\ resp.req.query.limit = <<49, 48, 49>>
    /\ resp.status = 400
    /\ ~resp.list.called
    /\ Cardinality(DOMAIN store) >= 1

-----------------------------------------------------------------------------
(* Properties of storage failures (SpecSQL) *)

\* the last request reached the store
StoreCalled == "storeErr" \in DOMAIN resp

\* C20: a storage failure other than an absent key during a Get or Delete is
\* reported as an internal server error, distinct from not-found: GET and
\* DELETE /strings/{value} answer 404 only when the value is not in the
\* store; a failed store Create is answered with a server error and the
\* resource is not reported as created.
C20_StorageFailureIsServerError ==
    StoreCalled =>
        /\ resp.op \in {"get", "delete"} =>
              /\ resp.status = 404 => resp.storeKey \notin DOMAIN store
              /\ resp.storeErr \notin {"nil", "string not found"} =>
                    resp.status = 500
        /\ (resp.op = "create" /\ resp.storeErr # "nil") =>
              /\ resp.status = 500
              /\ resp.body.Error = "Internal Server Error"

-----------------------------------------------------------------------------
(* Properties of the two backends' List (SpecList) *)

BothListed == ret.fn = "List"

\* a resource without its creation time
Content(res) == [ID |-> res.ID, Value |-> res.Value, Properties |-> res.Properties]

ContentsOf(results) == {Content(results[i]) : i \in 1..Len(results)}

\* C21: for every store content, filter set, limit and offset the SQLite
\* List returns the same total count and the same matching resources as the
\* in-memory List (as many on the page, and the same ones when the page holds
\* every match), also for a contains_character that is punctuation, white
\* space or a digit, and for unrecognized filter keys.
C21_SQLiteListAsInMemory ==
    BothListed =>
        /\ ret.sqlite.err = ret.memory.err
        /\ ret.sqlite.count = ret.memory.count
        /\ Len(ret.sqlite.data) = Len(ret.memory.data)
        /\ (arg.offset = 0 /\ arg.limit >= ret.memory.count) =>
              ContentsOf(ret.sqlite.data) = ContentsOf(ret.memory.data)

-----------------------------------------------------------------------------
(* Properties of the server under concurrent requests (SpecConc) *)

Answered(p) == reqs[p].pc = "done"

\* the requests p and q are serving now have been in flight together
Concurrent(p, q) == p # q /\ q \in reqs[p].conc /\ p \in reqs[q].conc

\* of the concurrent POST requests of one value that have been answered, a
\* 201 goes with a conflict for every other
OneCreated ==
    \A p, q \in Goroutines :
       (/\ Concurrent(p, q)
        /\ Answered(p) /\ Answered(q)
        /\ reqs[p].op = "POST" /\ reqs[q].op = "POST"
        /\ reqs[p].value = reqs[q].value
        /\ reqs[p].status = 201) => reqs[q].status = 409

\* C22: under any interleaving of concurrent POST, GET, DELETE and list
\* requests no step replaces the resource of a value that stays in the
\* store (its creation timestamp stays the one assigned at creation), and
\* of concurrent POST requests of the same value at most one is answered
\* 201 while the others are answered with a conflict.
C22_StoredOnceAnsweredOnce ==
    [][/\ \A v \in DOMAIN store \cap DOMAIN store' : store'[v] = store[v]
       /\ OneCreated']_vars

\* p is inside a store access: between taking and releasing the mutex, or
\* between the begin and the end of its database calls
Inside(p) == reqs[p].pc \in {"in", "scanned"}

Writing(p) == Inside(p) /\ reqs[p].method \in {"Create", "Delete"}

\* C23: on each storage backend a Create or Delete is never inside its store
\* access while another Create or Delete, or a Get, Exists or List, is
\* inside its own.
C23_WritesExcludeAllAccesses ==
    \A p, q \in Goroutines : (p # q /\ Writing(p)) => ~Inside(q)

\* two reads inside their store access at the same time
TwoReadsInside ==
    \E p, q \in Goroutines :
       p # q /\ Inside(p) /\ Inside(q) /\ ~Writing(p) /\ ~Writing(q)

\* C24: the data and the count returned by one List call describe a single
\* store state: count is the number of matching resources of the state the
\* page was taken from, the page is not longer than count and every
\* resource on it is one of those counted.
C24_PageAndCountOfOneState ==
    \A p \in Goroutines :
       (Answered(p) /\ reqs[p].op = "LIST" /\ reqs[p].status = 200) =>
          /\ reqs[p].count = Cardinality(DOMAIN reqs[p].from)
          /\ Len(reqs[p].data) <= reqs[p].count
          /\ \A i \in 1..Len(reqs[p].data) : reqs[p].data[i] \in DOMAIN reqs[p].from

=============================================================================
